---- MODULE Spec2Model ----
(***************************************************************************)
(* obsidian-graph-memory: the in-memory graph engine (src/src/graph.ts),   *)
(* the content-source client (src/src/obsidian-api.ts) and the tool        *)
(* handlers that run queries against the published snapshot.               *)
(*                                                                         *)
(* Strings are sequences of one-character strings, so that path and        *)
(* content handling is computed character by character as the code does.   *)
(* A JavaScript Map is a record [keys, val]: keys is the insertion order,  *)
(* val the mapping.  A JavaScript Set is a duplicate-free sequence in      *)
(* insertion order.                                                        *)
(***************************************************************************)
EXTENDS Integers, Sequences, FiniteSets, TLC

----------------------------------------------------------------------------
(* Sequences, Maps and Sets *)

Range(s) == {s[i] : i \in DOMAIN s}

\* s.slice(from, to) with 0-based from (inclusive) and to (exclusive), clamped
Slice(s, from, to) ==
    LET hi == IF to > Len(s) THEN Len(s) ELSE to
    IN  IF from >= hi THEN <<>> ELSE SubSeq(s, from + 1, hi)

EmptyMap == [keys |-> <<>>, val |-> <<>>]

MapHas(m, k) == k \in Range(m.keys)

\* the index of key k in the Map's key list
KeyIndex(m, k) == CHOOSE i \in DOMAIN m.keys : m.keys[i] = k

\* Map.get: the value, or the given default for `undefined`
MapGet(m, k, undef) == IF MapHas(m, k) THEN m.val[KeyIndex(m, k)] ELSE undef

\* Map.set: a new key is appended, an existing key keeps its position and
\* has its value overwritten
MapSet(m, k, v) ==
    IF MapHas(m, k)
    THEN [m EXCEPT !.val[KeyIndex(m, k)] = v]
    ELSE [keys |-> Append(m.keys, k), val |-> Append(m.val, v)]

\* Set.add
SetAdd(s, x) == IF x \in Range(s) THEN s ELSE Append(s, x)

\* new Set([...a, ...b])
RECURSIVE SetAddAll(_, _)
SetAddAll(s, xs) ==
    IF xs = <<>> THEN s ELSE SetAddAll(SetAdd(s, Head(xs)), Tail(xs))

----------------------------------------------------------------------------
(* Characters *)

Whitespace == {" ", "\n", "\t"}

Letters ==
    {"A", "B", "C", "D", "E", "F", "G", "H", "I", "J", "K", "L", "M", "N", "O", "P", "Q",
     "R", "S", "T", "U", "V", "W", "X", "Y", "Z", "a", "b", "c", "d", "e", "f", "g", "h",
     "i", "j", "k", "l", "m", "n", "o", "p", "q", "r", "s", "t", "u", "v", "w", "x", "y",
     "z"}

Alnum == Letters \cup {"0", "1", "2", "3", "4", "5", "6", "7", "8", "9"}

\* String.prototype.toLowerCase, on the alphabet in use
LowerChar(ch) ==
    CASE ch = "A" -> "a"
      [] ch = "B" -> "b"
      [] ch = "C" -> "c"
      [] ch = "D" -> "d"
      [] ch = "X" -> "x"
      [] OTHER -> ch

toLowerCase(s) == [i \in DOMAIN s |-> LowerChar(s[i])]

\* String.prototype.trim
RECURSIVE TrimLeft(_)
TrimLeft(s) ==
    IF s # <<>> /\ Head(s) \in Whitespace THEN TrimLeft(Tail(s)) ELSE s

RECURSIVE TrimRight(_)
TrimRight(s) ==
    IF s # <<>> /\ s[Len(s)] \in Whitespace
    THEN TrimRight(SubSeq(s, 1, Len(s) - 1))
    ELSE s

trim(s) == TrimRight(TrimLeft(s))

\* s.startsWith(lit) at 1-based position i
LitAt(s, i, lit) ==
    /\ i >= 1
    /\ i + Len(lit) - 1 <= Len(s)
    /\ \A k \in 1..Len(lit) : s[i + k - 1] = lit[k]

endsWith(s, lit) == Len(s) >= Len(lit) /\ LitAt(s, Len(s) - Len(lit) + 1, lit)

\* the length of the longest run of characters of class cls starting at i
RECURSIVE RunLen(_, _, _)
RunLen(s, i, cls) ==
    IF i <= Len(s) /\ s[i] \in cls THEN 1 + RunLen(s, i + 1, cls) ELSE 0

\* the length of the longest run of characters outside cls starting at i
RECURSIVE RunLenNot(_, _, _)
RunLenNot(s, i, cls) ==
    IF i <= Len(s) /\ s[i] \notin cls THEN 1 + RunLenNot(s, i + 1, cls) ELSE 0

\* String.prototype.split(sep) for a one-character separator
RECURSIVE split(_, _)
split(s, sep) ==
    LET n == RunLenNot(s, 1, {sep})
    IN  IF n = Len(s) THEN <<s>>
        ELSE <<SubSeq(s, 1, n)>> \o split(SubSeq(s, n + 2, Len(s)), sep)

\* Array.prototype.join(sep)
RECURSIVE join(_, _)
join(parts, sep) ==
    IF parts = <<>> THEN <<>>
    ELSE IF Len(parts) = 1 THEN parts[1]
    ELSE parts[1] \o <<sep>> \o join(Tail(parts), sep)

DotMd == <<".", "m", "d">>

----------------------------------------------------------------------------
(* Name/path resolution and parsing (graph.ts) *)

\* nameFromPath: last "/" segment (or the whole path when that is empty),
\* with a final ".md" removed
nameFromPath(path) ==
    LET parts == split(path, "/")
        last == parts[Len(parts)]
        basename == IF last = <<>> THEN path ELSE last
    IN  IF endsWith(basename, DotMd)
        THEN SubSeq(basename, 1, Len(basename) - 3)
        ELSE basename

\* folderFromPath: everything before the last "/" segment, "" when there is
\* one segment only
folderFromPath(path) ==
    LET parts == split(path, "/")
    IN  IF Len(parts) > 1 THEN join(SubSeq(parts, 1, Len(parts) - 1), "/") ELSE <<>>

\* One attempt of /\[\[([^\]|#]+)(?:[|#][^\]]+)?\]\]/ at position i.  Both
\* character runs are greedy; giving a character back never helps, because
\* the character after a shortened run is still of the run's class and so is
\* neither "]" nor the start of the optional group.  The result is
\* [ok, target, next]: next is the position after the match.
LinkMatchAt(c, i) ==
    LET n1 == RunLenNot(c, i + 2, {"]", "|", "#"})
        j == i + 2 + n1
        n2 == RunLenNot(c, j + 1, {"]"})
        k == j + 1 + n2
    IN  IF ~(LitAt(c, i, <<"[", "[">>) /\ n1 >= 1)
        THEN [ok |-> FALSE, target |-> <<>>, next |-> i + 1]
        ELSE IF LitAt(c, j, <<"]", "]">>)
        THEN [ok |-> TRUE, target |-> SubSeq(c, i + 2, j - 1), next |-> j + 2]
        ELSE IF j <= Len(c) /\ c[j] \in {"|", "#"} /\ n2 >= 1 /\ LitAt(c, k, <<"]", "]">>)
        THEN [ok |-> TRUE, target |-> SubSeq(c, i + 2, j - 1), next |-> k + 2]
        ELSE [ok |-> FALSE, target |-> <<>>, next |-> i + 1]

\* regex.exec loop of parseWikilinks from position i on
RECURSIVE LinksFrom(_, _)
LinksFrom(c, i) ==
    IF i > Len(c) THEN <<>>
    ELSE LET m == LinkMatchAt(c, i)
         IN  IF m.ok THEN <<trim(m.target)>> \o LinksFrom(c, m.next)
             ELSE LinksFrom(c, i + 1)

\* parseWikilinks: the link targets, trimmed, in order of appearance
parseWikilinks(content) == LinksFrom(content, 1)

----------------------------------------------------------------------------
(* parseTags (graph.ts) *)

Quotes == {"\"", "'"}

TagChars == Alnum \cup {"_", "/", "-"}

\* s.replace(/^["']|["']$/g, ""): one leading and one trailing quote removed
StripQuotes(s) ==
    LET s1 == IF s # <<>> /\ Head(s) \in Quotes THEN Tail(s) ELSE s
    IN  IF s1 # <<>> /\ s1[Len(s1)] \in Quotes THEN SubSeq(s1, 1, Len(s1) - 1) ELSE s1

\* s.replace(/^#/, "")
StripHash(s) == IF s # <<>> /\ Head(s) = "#" THEN Tail(s) ELSE s

\* /^---\n([\s\S]*?)\n---/ : [ok, fm, len] with fm the lazily matched block
\* and len the length of the whole match
RECURSIVE FmClose(_, _)
FmClose(c, i) ==
    IF i > Len(c) THEN 0
    ELSE IF LitAt(c, i, <<"\n", "-", "-", "-">>) THEN i
    ELSE FmClose(c, i + 1)

FrontmatterMatch(c) ==
    LET close == IF LitAt(c, 1, <<"-", "-", "-", "\n">>) THEN FmClose(c, 5) ELSE 0
    IN  IF close = 0 THEN [ok |-> FALSE, fm |-> <<>>, len |-> 0]
        ELSE [ok |-> TRUE, fm |-> SubSeq(c, 5, close - 1), len |-> close + 3]

\* ^ under the m flag: the start, or right after a line terminator
LineStart(s, i) == i = 1 \/ (i >= 2 /\ i <= Len(s) + 1 /\ s[i - 1] = "\n")

TagsLit == <<"t", "a", "g", "s", ":">>

\* /^tags:\s*\[([^\]]*)\]/m at position i: [ok, body]
InlineListAt(fm, i) ==
    LET a == i + 5
        b == a + RunLen(fm, a, Whitespace)
        n == RunLenNot(fm, b + 1, {"]"})
    IN  IF LineStart(fm, i) /\ LitAt(fm, i, TagsLit) /\ LitAt(fm, b, <<"[">>)
           /\ LitAt(fm, b + 1 + n, <<"]">>)
        THEN [ok |-> TRUE, body |-> SubSeq(fm, b + 1, b + n)]
        ELSE [ok |-> FALSE, body |-> <<>>]

RECURSIVE InlineListFrom(_, _)
InlineListFrom(fm, i) ==
    IF i > Len(fm) THEN [ok |-> FALSE, body |-> <<>>]
    ELSE IF InlineListAt(fm, i).ok THEN InlineListAt(fm, i)
    ELSE InlineListFrom(fm, i + 1)

\* the cleaned items of an array of raw items, added to the tag Set in order
RECURSIVE AddCleaned(_, _)
AddCleaned(tags, items) ==
    IF items = <<>> THEN tags
    ELSE LET cleaned == StripHash(StripQuotes(trim(Head(items))))
         IN  AddCleaned(IF cleaned # <<>> THEN SetAdd(tags, cleaned) ELSE tags, Tail(items))

\* the position of the last "\n" in s[a..b-1], 0 when there is none
RECURSIVE LastNewline(_, _, _)
LastNewline(s, a, b) ==
    IF b <= a THEN 0
    ELSE IF s[b - 1] = "\n" THEN b - 1
    ELSE LastNewline(s, a, b - 1)

\* /-\s+.+/ at the "-" of position d: the position after the match, 0 on
\* failure.  \s+ is greedy and gives characters back until `.` can match a
\* character that is no line terminator.
RECURSIVE DashBack(_, _, _)
DashBack(s, d, l) ==
    IF l < 1 THEN 0
    ELSE LET e == d + 1 + l
         IN  IF e <= Len(s) /\ s[e] # "\n" THEN e + RunLenNot(s, e, {"\n"})
             ELSE DashBack(s, d, l - 1)

DashItemEnd(s, d) ==
    IF LitAt(s, d, <<"-">>) THEN DashBack(s, d, RunLen(s, d + 1, Whitespace)) ELSE 0

\* (?:\s+-\s+.+\n?)* from position g: the position after the last iteration
RECURSIVE YamlItems(_, _)
YamlItems(s, g) ==
    LET w == RunLen(s, g, Whitespace)
        e == IF w >= 1 THEN DashItemEnd(s, g + w) ELSE 0
    IN  IF e = 0 THEN g
        ELSE YamlItems(s, IF LitAt(s, e, <<"\n">>) THEN e + 1 ELSE e)

\* /^tags:\s*\n((?:\s+-\s+.+\n?)*)/m at position i: \s* is greedy and gives
\* back down to the last "\n" of the whitespace run
YamlListAt(fm, i) ==
    LET a == i + 5
        b == a + RunLen(fm, a, Whitespace)
        nl == LastNewline(fm, a, b)
    IN  IF LineStart(fm, i) /\ LitAt(fm, i, TagsLit) /\ nl # 0
        THEN [ok |-> TRUE, body |-> SubSeq(fm, nl + 1, YamlItems(fm, nl + 1) - 1)]
        ELSE [ok |-> FALSE, body |-> <<>>]

RECURSIVE YamlListFrom(_, _)
YamlListFrom(fm, i) ==
    IF i > Len(fm) THEN [ok |-> FALSE, body |-> <<>>]
    ELSE IF YamlListAt(fm, i).ok THEN YamlListAt(fm, i)
    ELSE YamlListFrom(fm, i + 1)

\* body.match(/-\s+(.+)/g): the matched lines, each then stripped of its
\* leading /^-\s+/
RECURSIVE DashLines(_, _)
DashLines(s, i) ==
    IF i > Len(s) THEN <<>>
    ELSE LET e == DashItemEnd(s, i)
         IN  IF e = 0 THEN DashLines(s, i + 1)
             ELSE LET line == SubSeq(s, i, e - 1)
                      skip == 1 + RunLen(line, 2, Whitespace)
                  IN  <<SubSeq(line, skip + 1, Len(line))>> \o DashLines(s, e)

\* /(?:^|\s)#([a-zA-Z][a-zA-Z0-9_\/-]*)/g over the body from position i
RECURSIVE InlineTagsFrom(_, _, _)
InlineTagsFrom(tags, c, i) ==
    IF i > Len(c) THEN tags
    ELSE LET h == IF i = 1 /\ LitAt(c, 1, <<"#">>) /\ 2 <= Len(c) /\ c[2] \in Letters THEN 1
                  ELSE IF c[i] \in Whitespace /\ LitAt(c, i + 1, <<"#">>)
                          /\ i + 2 <= Len(c) /\ c[i + 2] \in Letters THEN i + 1
                  ELSE 0
         IN  IF h = 0 THEN InlineTagsFrom(tags, c, i + 1)
             ELSE LET n == RunLen(c, h + 1, TagChars)
                  IN  InlineTagsFrom(SetAdd(tags, SubSeq(c, h + 1, h + n)), c, h + 1 + n)

\* parseTags: frontmatter tags (inline list, then block list), then inline
\* tags of the text after the frontmatter, as an array in Set order
parseTags(content) ==
    LET fmMatch == FrontmatterMatch(content)
        tagsLineMatch == InlineListFrom(fmMatch.fm, 1)
        t1 == IF fmMatch.ok /\ tagsLineMatch.ok
              THEN AddCleaned(<<>>, split(tagsLineMatch.body, ","))
              ELSE <<>>
        yamlListMatch == YamlListFrom(fmMatch.fm, 1)
        t2 == IF fmMatch.ok /\ yamlListMatch.ok
              THEN AddCleaned(t1, DashLines(yamlListMatch.body, 1))
              ELSE t1
        bodyContent == IF fmMatch.ok
                       THEN SubSeq(content, fmMatch.len + 1, Len(content))
                       ELSE content
    IN  InlineTagsFrom(t2, bodyContent, 1)

----------------------------------------------------------------------------
(* The content source: what the Obsidian REST API may answer.  The vault is *)
(* edited behind the server's back, so a call is answered from any of the   *)
(* vault versions below, or fails.                                          *)

Md(name) == name \o DotMd

Link(t) == <<"[", "[">> \o t \o <<"]", "]">>

LinkAs(t, display) == <<"[", "[">> \o t \o <<"|">> \o display \o <<"]", "]">>

Sp == <<" ">>

Hash(t) == <<"#">> \o t

NA == <<"A">>
NB == <<"B">>
NC == <<"C">>
NX == <<"X">>
DirD == <<"d">>

\* the vault of the concrete scenario: A -> B, A -> C, B -> A, C empty
Vault1 ==
    [dirs |-> (<<>> :> <<Md(NA), Md(NB), Md(NC)>>),
     files |-> (Md(NA) :> (Link(NB) \o Sp \o Link(NC) \o Sp \o Hash(<<"x">>))
                @@ Md(NB) :> Link(NA)
                @@ Md(NC) :> <<>>)]

\* a sub-directory, two paths named A, a reference to an unknown name, a
\* file that is no note, a whitespace-only note
Vault2 ==
    [dirs |-> (<<>> :> <<Md(NA), DirD \o <<"/">>, <<"n", ".", "t", "x", "t">>>>
               @@ DirD :> <<Md(NA), Md(NB)>>),
     files |-> (Md(NA) :> (LinkAs(NB, <<"b">>) \o Link(NX) \o Sp \o Hash(<<"y">>))
                @@ (DirD \o <<"/">> \o Md(NA)) :> (Link(<<" ", "A", " ">>) \o Link(NA))
                @@ (DirD \o <<"/">> \o Md(NB)) :> <<" ", "\n">>)]

\* the empty vault
Vault3 == [dirs |-> (<<>> :> <<>>), files |-> <<>>]

Vaults == {Vault1, Vault2, Vault3}

\* a second universe, for the query algorithms: five notes, A, B and C each
\* linking to any subset of A, B, C (C also to D), D linking to nothing, to C
\* or to itself, E to nothing or to B and D.  One form of link per target:
\* plain, aliased, with a section, padded; a link to C brings the tag t and
\* a link to D the tag u.
ND == <<"D">>
NE == <<"E">>

QueryPaths == <<Md(NA), DirD \o <<"/">> \o Md(NB), Md(NC), Md(ND), Md(NE)>>

LinkTo(t) ==
    CASE t = NA -> Link(NA)
      [] t = NB -> LinkAs(NB, <<"b">>)
      [] t = NC -> <<"[", "[">> \o NC \o <<"#", "s">> \o <<"]", "]">> \o Sp \o Hash(<<"t">>)
      [] t = ND -> Link(<<" ", "D", " ">>) \o Sp \o Hash(<<"u">>)
      [] OTHER -> Link(t)

RECURSIVE LinksText(_)
LinksText(ts) == IF ts = <<>> THEN <<>> ELSE LinkTo(Head(ts)) \o LinksText(Tail(ts))

\* the subsets of a sequence of targets, each as a sub-sequence
RECURSIVE SubSeqs(_)
SubSeqs(ts) ==
    IF ts = <<>> THEN {<<>>}
    ELSE LET rest == SubSeqs(Tail(ts))
         IN  rest \cup {<<Head(ts)>> \o r : r \in rest}

QueryContents ==
    [k \in 1..5 |->
        CASE k = 1 -> {LinksText(ts) : ts \in SubSeqs(<<NB, NC, NA>>)}
          [] k = 2 -> {LinksText(ts) : ts \in SubSeqs(<<NC, NA, NB>>)}
          [] k = 3 -> {LinksText(ts) : ts \in SubSeqs(<<NA, NB, NC, ND>>)}
          [] k = 4 -> {<<>>, LinksText(<<NC>>), LinksText(<<ND, ND>>)}
          [] OTHER -> {<<>>, LinksText(<<NB, ND>>)}]

\* every path and every text the model hands to the parsing functions
AllPaths == UNION {DOMAIN v.files : v \in Vaults} \cup Range(QueryPaths)

AllContents ==
    UNION {Range(v.files) : v \in Vaults} \cup UNION Range(QueryContents) \cup {<<>>}

\* nameFromPath, folderFromPath, parseWikilinks and parseTags, tabulated once
\* over these inputs
NameOf == [p \in AllPaths |-> nameFromPath(p)]

FolderOf == [p \in AllPaths |-> folderFromPath(p)]

WikilinksOf == [c \in AllContents |-> parseWikilinks(c)]

TagsOf == [c \in AllContents |-> parseTags(c)]

\* GET /vault/<dir>/ answered with data.files, when it is answered
ListDirAnswers(dirPath) == {v.dirs[dirPath] : v \in {w \in Vaults : dirPath \in DOMAIN w.dirs}}

\* GET /vault/<path> answered with the note's text, when it is answered
ReadNoteAnswers(path) == {v.files[path] : v \in {w \in Vaults : path \in DOMAIN w.files}}

----------------------------------------------------------------------------
(* buildGraph: the synchronous construction of lines 117-153 (graph.ts) *)

\* the node loop keeping the node a name already has instead of setting it
RECURSIVE BuildNodesFirstWins(_, _, _, _)
BuildNodesFirstWins(g, paths, noteContents, k) ==
    IF k > Len(paths) THEN g
    ELSE LET path == paths[k]
             name == NameOf[path]
             content == MapGet(noteContents, path, <<>>)
             node == [path |-> path,
                      name |-> name,
                      folder |-> FolderOf[path],
                      tags |-> TagsOf[content],
                      hasContent |-> Len(trim(content)) > 0]
         IN  BuildNodesFirstWins(
                 IF MapHas(g.nodes, name) THEN g
                 ELSE [nodes |-> MapSet(g.nodes, name, node),
                       edges |-> MapSet(g.edges, name, <<>>),
                       reverseEdges |-> MapSet(g.reverseEdges, name, <<>>)],
                 paths, noteContents, k + 1)

\* the node loop (lines 118-130) over paths[k..]
RECURSIVE BuildNodes(_, _, _, _)
BuildNodes(g, paths, noteContents, k) ==
    IF k > Len(paths) THEN g
    ELSE LET path == paths[k]
             name == NameOf[path]
             content == MapGet(noteContents, path, <<>>)
             node == [path |-> path,
                      name |-> name,
                      folder |-> FolderOf[path],
                      tags |-> TagsOf[content],
                      hasContent |-> Len(trim(content)) > 0]
         IN  BuildNodes([nodes |-> MapSet(g.nodes, name, node),
                         edges |-> MapSet(g.edges, name, <<>>),
                         reverseEdges |-> MapSet(g.reverseEdges, name, <<>>)],
                        paths, noteContents, k + 1)

\* AddLink without the `newNodes.has(target)` test of line 138
AddLinkUnchecked(g, sourceName, target) ==
    LET rev == IF MapHas(g.reverseEdges, target)
               THEN g.reverseEdges
               ELSE MapSet(g.reverseEdges, target, <<>>)
    IN  [nodes |-> g.nodes,
         edges |-> MapSet(g.edges, sourceName,
                          SetAdd(MapGet(g.edges, sourceName, <<>>), target)),
         reverseEdges |-> MapSet(rev, target,
                                 SetAdd(MapGet(rev, target, <<>>), sourceName))]

\* AddLink without the reverse edge of lines 140-143
AddLinkForwardOnly(g, sourceName, target) ==
    IF MapHas(g.nodes, target)
    THEN [nodes |-> g.nodes,
          edges |-> MapSet(g.edges, sourceName,
                           SetAdd(MapGet(g.edges, sourceName, <<>>), target)),
          reverseEdges |-> g.reverseEdges]
    ELSE g

\* lines 138-144: one link target of the document named sourceName
AddLink(g, sourceName, target) ==
    IF MapHas(g.nodes, target)
    THEN LET rev == IF MapHas(g.reverseEdges, target)
                    THEN g.reverseEdges
                    ELSE MapSet(g.reverseEdges, target, <<>>)
         IN  [nodes |-> g.nodes,
              edges |-> MapSet(g.edges, sourceName,
                               SetAdd(MapGet(g.edges, sourceName, <<>>), target)),
              reverseEdges |-> MapSet(rev, target,
                                      SetAdd(MapGet(rev, target, <<>>), sourceName))]
    ELSE g

\* the inner loop (lines 136-145) over the links of one document
RECURSIVE AddLinks(_, _, _)
AddLinks(g, sourceName, links) ==
    IF links = <<>> THEN g
    ELSE AddLinks(AddLink(g, sourceName, Head(links)), sourceName, Tail(links))

\* the edge loop (lines 133-146) over the fetched documents, in Map order
RECURSIVE BuildEdges(_, _, _)
BuildEdges(g, noteContents, k) ==
    IF k > Len(noteContents.keys) THEN g
    ELSE BuildEdges(AddLinks(g, NameOf[noteContents.keys[k]],
                             WikilinksOf[noteContents.val[k]]),
                    noteContents, k + 1)

\* lines 117-153: the snapshot built from the listing and the fetched
\* contents, stamped with `new Date()`
BuildSnapshot(paths, noteContents, date) ==
    LET g0 == [nodes |-> EmptyMap, edges |-> EmptyMap, reverseEdges |-> EmptyMap]
        g == BuildEdges(BuildNodes(g0, paths, noteContents, 1), noteContents, 1)
    IN  [nodes |-> g.nodes, edges |-> g.edges, reverseEdges |-> g.reverseEdges,
         lastRefresh |-> date]

\* lines 24-29: the module's initial graph, lastRefresh = new Date(0)
InitialGraph ==
    [nodes |-> EmptyMap, edges |-> EmptyMap, reverseEdges |-> EmptyMap, lastRefresh |-> 0]

----------------------------------------------------------------------------
(* Query algorithms (graph.ts); g is the module-level `graph` they read *)

\* new Set([...outgoing, ...incoming]) with `|| new Set()` for a missing key
Neighbors(g, name) ==
    SetAddAll(SetAddAll(<<>>, MapGet(g.edges, name, <<>>)),
              MapGet(g.reverseEdges, name, <<>>))

\* lines 184-189: the unvisited neighbours are marked and queued at dist + 1
RECURSIVE RelatedVisit(_, _, _, _)
RelatedVisit(st, nbrs, dist, k) ==
    IF k > Len(nbrs) THEN st
    ELSE IF nbrs[k] \in st.visited THEN RelatedVisit(st, nbrs, dist, k + 1)
    ELSE RelatedVisit([st EXCEPT !.visited = @ \cup {nbrs[k]},
                                 !.queue = Append(@, [name |-> nbrs[k], dist |-> dist + 1])],
                      nbrs, dist, k + 1)

\* the while loop of lines 172-191
RECURSIVE RelatedLoop(_, _, _)
RelatedLoop(g, depth, st) ==
    IF st.queue = <<>> THEN st.results
    ELSE LET cur == Head(st.queue)
             st1 == [st EXCEPT !.queue = Tail(@)]
             st2 == IF cur.dist > 0 /\ MapHas(g.nodes, cur.name)
                    THEN [st1 EXCEPT !.results =
                              Append(@, [name |-> cur.name,
                                         path |-> MapGet(g.nodes, cur.name, <<>>).path,
                                         distance |-> cur.dist])]
                    ELSE st1
             st3 == IF cur.dist < depth
                    THEN RelatedVisit(st2, Neighbors(g, cur.name), cur.dist, 1)
                    ELSE st2
         IN  RelatedLoop(g, depth, st3)

\* queryRelated without the `visited.add(startName)` of line 170
queryRelatedStartUnmarked(g, startName, depth) ==
    RelatedLoop(g, depth, [results |-> <<>>,
                           visited |-> {},
                           queue |-> <<[name |-> startName, dist |-> 0]>>])

\* queryRelated(startName, depth)
queryRelated(g, startName, depth) ==
    RelatedLoop(g, depth, [results |-> <<>>,
                           visited |-> {startName},
                           queue |-> <<[name |-> startName, dist |-> 0]>>])

\* lines 219-225: the path rebuilt from the parent Map, back from toName
RECURSIVE Reconstruct(_, _, _)
Reconstruct(parent, node, path) ==
    IF MapHas(parent, node)
    THEN LET up == MapGet(parent, node, <<>>)
         IN  Reconstruct(parent, up, <<up>> \o path)
    ELSE path

\* lines 213-229: the neighbours of `current` from index k on; found is the
\* returned path once toName is reached
RECURSIVE PathVisit(_, _, _, _, _)
PathVisit(st, nbrs, current, toName, k) ==
    IF k > Len(nbrs) \/ st.found # <<>> THEN st
    ELSE IF nbrs[k] \in st.visited THEN PathVisit(st, nbrs, current, toName, k + 1)
    ELSE LET par == MapSet(st.parent, nbrs[k], current)
             st1 == [st EXCEPT !.visited = @ \cup {nbrs[k]}, !.parent = par]
         IN  IF nbrs[k] = toName
             THEN [st1 EXCEPT !.found = Reconstruct(par, toName, <<toName>>)]
             ELSE PathVisit([st1 EXCEPT !.queue = Append(@, nbrs[k])],
                            nbrs, current, toName, k + 1)

\* the while loop taking the newest queued name (`pop`) instead of the
\* oldest (`shift`)
RECURSIVE PathLoopDepthFirst(_, _, _)
PathLoopDepthFirst(g, toName, st) ==
    IF st.found # <<>> THEN st.found
    ELSE IF st.queue = <<>> THEN <<>>
    ELSE LET current == st.queue[Len(st.queue)]
         IN  PathLoopDepthFirst(g, toName,
                 PathVisit([st EXCEPT !.queue = SubSeq(@, 1, Len(@) - 1)],
                           Neighbors(g, current), current, toName, 1))

\* the while loop of lines 209-230; <<>> stands for `null`
RECURSIVE PathLoop(_, _, _)
PathLoop(g, toName, st) ==
    IF st.found # <<>> THEN st.found
    ELSE IF st.queue = <<>> THEN <<>>
    ELSE LET current == Head(st.queue)
         IN  PathLoop(g, toName,
                      PathVisit([st EXCEPT !.queue = Tail(@)],
                                Neighbors(g, current), current, toName, 1))

\* findPath(fromName, toName): the path as a sequence of names, <<>> for null
findPath(g, fromName, toName) ==
    IF fromName = toName THEN <<fromName>>
    ELSE IF ~MapHas(g.nodes, fromName) \/ ~MapHas(g.nodes, toName) THEN <<>>
    ELSE PathLoop(g, toName, [visited |-> {fromName},
                              parent |-> EmptyMap,
                              queue |-> <<fromName>>,
                              found |-> <<>>])

\* the comparator reversed: (a, b) => a.total - b.total
RECURSIVE InsertByTotalAscending(_, _)
InsertByTotalAscending(sorted, h) ==
    IF sorted = <<>> THEN <<h>>
    ELSE IF Head(sorted).total <= h.total
    THEN <<Head(sorted)>> \o InsertByTotalAscending(Tail(sorted), h)
    ELSE <<h>> \o sorted

\* hubs.sort((a, b) => b.total - a.total): a stable sort, here by insertion
RECURSIVE InsertByTotal(_, _)
InsertByTotal(sorted, h) ==
    IF sorted = <<>> THEN <<h>>
    ELSE IF Head(sorted).total >= h.total
    THEN <<Head(sorted)>> \o InsertByTotal(Tail(sorted), h)
    ELSE <<h>> \o sorted

RECURSIVE SortByTotal(_, _)
SortByTotal(sorted, hubs) ==
    IF hubs = <<>> THEN sorted
    ELSE SortByTotal(InsertByTotal(sorted, Head(hubs)), Tail(hubs))

\* `graph.edges.get(name)?.size || 0`
SizeOf(m, name) == Len(MapGet(m, name, <<>>))

\* lines 241-245: one entry per node, in Map order
HubEntries(g) ==
    [k \in DOMAIN g.nodes.keys |->
        LET name == g.nodes.keys[k]
            outgoing == SizeOf(g.edges, name)
            incoming == SizeOf(g.reverseEdges, name)
        IN  [name |-> name, path |-> g.nodes.val[k].path, outgoing |-> outgoing,
             incoming |-> incoming, total |-> outgoing + incoming]]

\* getHubs(topN)
getHubs(g, topN) == Slice(SortByTotal(<<>>, HubEntries(g)), 0, topN)

\* the loop testing `outgoing === 0` alone
RECURSIVE OrphansFromOutgoingOnly(_, _)
OrphansFromOutgoingOnly(g, k) ==
    IF k > Len(g.nodes.keys) THEN <<>>
    ELSE LET name == g.nodes.keys[k]
             rest == OrphansFromOutgoingOnly(g, k + 1)
         IN  IF SizeOf(g.edges, name) = 0
             THEN <<[name |-> name, path |-> g.nodes.val[k].path]>> \o rest
             ELSE rest

\* getOrphans()
RECURSIVE OrphansFrom(_, _)
OrphansFrom(g, k) ==
    IF k > Len(g.nodes.keys) THEN <<>>
    ELSE LET name == g.nodes.keys[k]
             rest == OrphansFrom(g, k + 1)
         IN  IF SizeOf(g.edges, name) = 0 /\ SizeOf(g.reverseEdges, name) = 0
             THEN <<[name |-> name, path |-> g.nodes.val[k].path]>> \o rest
             ELSE rest

getOrphans(g) == OrphansFrom(g, 1)

RootLabel == <<"(", "r", "o", "o", "t", ")">>

UntaggedLabel == <<"(", "u", "n", "t", "a", "g", "g", "e", "d", ")">>

\* `if (!groups.has(key)) groups.set(key, []); groups.get(key).push(entry)`
GroupPush(groups, key, entry) ==
    MapSet(groups, key, Append(MapGet(groups, key, <<>>), entry))

RECURSIVE GroupPushAll(_, _, _)
GroupPushAll(groups, keys, entry) ==
    IF keys = <<>> THEN groups
    ELSE GroupPushAll(GroupPush(groups, Head(keys), entry), Tail(keys), entry)

\* the grouping loop filing a tagged node under its first tag only
RECURSIVE ClusterLoopFirstTag(_, _, _, _)
ClusterLoopFirstTag(g, by, groups, k) ==
    IF k > Len(g.nodes.keys) THEN groups
    ELSE LET node == g.nodes.val[k]
             entry == [name |-> g.nodes.keys[k], path |-> node.path]
             next == IF by = "folder"
                     THEN GroupPush(groups,
                                    IF node.folder # <<>> THEN node.folder ELSE RootLabel,
                                    entry)
                     ELSE IF Len(node.tags) = 0
                     THEN GroupPush(groups, UntaggedLabel, entry)
                     ELSE GroupPush(groups, Head(node.tags), entry)
         IN  ClusterLoopFirstTag(g, by, next, k + 1)

\* lines 274-291: the grouping loop over the nodes from index k on
RECURSIVE ClusterLoop(_, _, _, _)
ClusterLoop(g, by, groups, k) ==
    IF k > Len(g.nodes.keys) THEN groups
    ELSE LET node == g.nodes.val[k]
             entry == [name |-> g.nodes.keys[k], path |-> node.path]
             next == IF by = "folder"
                     THEN GroupPush(groups,
                                    IF node.folder # <<>> THEN node.folder ELSE RootLabel,
                                    entry)
                     ELSE IF Len(node.tags) = 0
                     THEN GroupPush(groups, UntaggedLabel, entry)
                     ELSE GroupPushAll(groups, node.tags, entry)
         IN  ClusterLoop(g, by, next, k + 1)

\* .sort((a, b) => b.notes.length - a.notes.length): stable, by insertion
RECURSIVE InsertBySize(_, _)
InsertBySize(sorted, c) ==
    IF sorted = <<>> THEN <<c>>
    ELSE IF Len(Head(sorted).notes) >= Len(c.notes)
    THEN <<Head(sorted)>> \o InsertBySize(Tail(sorted), c)
    ELSE <<c>> \o sorted

RECURSIVE SortBySize(_, _)
SortBySize(sorted, cs) ==
    IF cs = <<>> THEN sorted
    ELSE SortBySize(InsertBySize(sorted, Head(cs)), Tail(cs))

\* getClusters(by)
getClusters(g, by) ==
    LET groups == ClusterLoop(g, by, EmptyMap, 1)
    IN  SortBySize(<<>>, [k \in DOMAIN groups.keys |->
                            [cluster |-> groups.keys[k], notes |-> groups.val[k]]])

\* lines 314-318: totalLinks, and the Sets of tags and of non-empty folders
RECURSIVE StatsLoop(_, _, _)
StatsLoop(g, acc, k) ==
    IF k > Len(g.nodes.keys) THEN acc
    ELSE LET node == g.nodes.val[k]
         IN  StatsLoop(g,
                       [totalLinks |-> acc.totalLinks + SizeOf(g.edges, g.nodes.keys[k]),
                        allTags |-> acc.allTags \cup Range(node.tags),
                        folders |-> IF node.folder # <<>>
                                    THEN acc.folders \cup {node.folder}
                                    ELSE acc.folders],
                       k + 1)

\* getStats(); avgLinksPerNote is kept in hundredths:
\* Math.round(x * 100) = floor(x * 100 + 1/2)
getStats(g) ==
    LET acc == StatsLoop(g, [totalLinks |-> 0, allTags |-> {}, folders |-> {}], 1)
        totalNotes == Len(g.nodes.keys)
    IN  [totalNotes |-> totalNotes,
         totalLinks |-> acc.totalLinks,
         totalTags |-> Cardinality(acc.allTags),
         orphanCount |-> Len(getOrphans(g)),
         avgLinksPerNote100 |-> IF totalNotes > 0
                                THEN (200 * acc.totalLinks + totalNotes) \div (2 * totalNotes)
                                ELSE 0,
         lastRefresh |-> g.lastRefresh,
         folders |-> Cardinality(acc.folders)]

----------------------------------------------------------------------------
(* obsidian-api.ts *)

\* listDir lines 30-34: the entries of data.files as VaultFile records
VaultFiles(dirPath, files) ==
    LET prefix == IF dirPath # <<>>
                  THEN (IF endsWith(dirPath, <<"/">>) THEN dirPath ELSE dirPath \o <<"/">>)
                  ELSE <<>>
    IN  [k \in DOMAIN files |->
            LET f == files[k]
            IN  [path |-> IF endsWith(f, <<"/">>)
                          THEN prefix \o SubSeq(f, 1, Len(f) - 1)
                          ELSE prefix \o f,
                 isDirectory |-> endsWith(f, <<"/">>)]]

\* listAllNotes lines 47-53: the entries of one directory, from index k on
RECURSIVE ScanEntries(_, _, _)
ScanEntries(st, entries, k) ==
    IF k > Len(entries) THEN st
    ELSE LET entry == entries[k]
         IN  ScanEntries(IF entry.isDirectory
                         THEN [st EXCEPT !.queue = Append(@, entry.path)]
                         ELSE IF endsWith(entry.path, DotMd)
                         THEN [st EXCEPT !.notes = Append(@, entry.path)]
                         ELSE st,
                         entries, k + 1)

----------------------------------------------------------------------------
(* State *)

\* the activations of buildGraph: main's initial build (index.ts:53), the
\* setInterval callback (index.ts:63-70), the graph_refresh tool
Builders == {"main", "timer", "refresh"}

BATCH_SIZE == 20

\* the values `new Date()` may take, after new Date(0) = 0
MaxTime == 2

VARIABLES
    graph,          \* graph.ts:24 the module-level current snapshot
    phase,          \* main(): "init", "building" (initial build), "serving"
    pc,             \* per activation: "idle", "listing", "fetching"
    queue,          \* listAllNotes: directories still to list
    notes,          \* listAllNotes: notes found so far
    paths,          \* buildGraph: the listing
    batchStart,     \* buildGraph: i, the offset of the batch in flight
    noteContents,   \* buildGraph: Map path -> fetched content
    resp,           \* what the last step returned to its caller
    io,             \* what the content source answered in the last step
    src,            \* history: the listing and contents `graph` was built from,
                    \* and (when kept) the log of the rebuilds' starts and ends
    published       \* history: the snapshot of the last completed rebuild

vars == <<graph, phase, pc, queue, notes, paths, batchStart, noteContents, resp, io,
          src, published>>

locals == <<pc, queue, notes, paths, batchStart, noteContents>>

NoResp == [op |-> "none"]

NoIo == [kind |-> "none"]

\* the log of the rebuilds, not kept
NoLog == [mode |-> "off", order |-> <<>>, passed |-> {}, won |-> FALSE, repeatOf |-> 0]

\* s without the builder b
Without(s, b) == SelectSeq(s, LAMBDA x : x # b)

\* the log when b's rebuild starts: the rebuilds in flight, oldest first
Started(b) ==
    IF src.log.mode = "race"
    THEN [src EXCEPT !.log.order = Append(@, b), !.log.won = FALSE]
    ELSE src

\* the log when b's rebuild rejects
Stopped(b) ==
    IF src.log.mode = "race"
    THEN [src EXCEPT !.log.order = Without(@, b), !.log.passed = @ \ {b}]
    ELSE src

\* the log when b's rebuild publishes g from the listing ps and the contents
\* nc.  Kept for races: `passed` are the rebuilds in flight that started
\* before one that has published since, and `won` says, until the next
\* rebuild starts, that b was one of them and that g differs from the
\* snapshot it replaces.  Kept for repeats:
\* `repeatOf` is the lastRefresh of the replaced snapshot when that was built
\* from the same listing and contents, else 0.
Completed(b, ps, nc, g) ==
    CASE src.log.mode = "race" ->
            LET elders == {src.log.order[i] : i \in {j \in DOMAIN src.log.order :
                              \E k \in DOMAIN src.log.order :
                                  j < k /\ src.log.order[k] = b}}
            IN  [src.log EXCEPT
                    !.order = Without(@, b),
                    !.passed = (@ \cup elders) \ {b},
                    !.won = /\ b \in src.log.passed
                            /\ [nodes |-> g.nodes, edges |-> g.edges,
                                reverseEdges |-> g.reverseEdges]
                               # [nodes |-> graph.nodes, edges |-> graph.edges,
                                  reverseEdges |-> graph.reverseEdges]]
      [] src.log.mode = "repeat" ->
            [src.log EXCEPT
                !.repeatOf = IF src.built /\ src.paths = ps /\ src.noteContents = nc
                             THEN graph.lastRefresh ELSE 0]
      [] OTHER -> src.log

Init ==
    /\ graph = InitialGraph
    /\ phase = "init"
    /\ pc = [b \in Builders |-> "idle"]
    /\ queue = [b \in Builders |-> <<>>]
    /\ notes = [b \in Builders |-> <<>>]
    /\ paths = [b \in Builders |-> <<>>]
    /\ batchStart = [b \in Builders |-> 0]
    /\ noteContents = [b \in Builders |-> EmptyMap]
    /\ resp = NoResp
    /\ io = NoIo
    /\ src = [built |-> FALSE, paths |-> <<>>, noteContents |-> EmptyMap, log |-> NoLog]
    /\ published = InitialGraph

----------------------------------------------------------------------------
(* buildGraph, step by step.  A step runs from one await to the next: the   *)
(* code between two awaits is synchronous and nothing interleaves with it.  *)
(* The fetches of one batch settle one by one, but each only produces a     *)
(* value held by Promise.allSettled; the step below is the batch settling.  *)

\* the locals of a finished activation are gone
Return(b) ==
    /\ pc' = [pc EXCEPT ![b] = "idle"]
    /\ queue' = [queue EXCEPT ![b] = <<>>]
    /\ notes' = [notes EXCEPT ![b] = <<>>]
    /\ paths' = [paths EXCEPT ![b] = <<>>]
    /\ batchStart' = [batchStart EXCEPT ![b] = 0]
    /\ noteContents' = [noteContents EXCEPT ![b] = EmptyMap]
    /\ phase' = IF b = "main" THEN "serving" ELSE phase

\* what the caller of buildGraph gets when it fulfils: main and the timer
\* log, graph_refresh reports getStats() (refresh.ts:13-23)
Fulfilled(b, g) ==
    IF b = "refresh"
    THEN [op |-> "graph_refresh", caller |-> b, status |-> "fulfilled", stats |-> getStats(g)]
    ELSE [op |-> "buildGraph", caller |-> b, status |-> "fulfilled"]

\* what the caller gets when buildGraph rejects: main and the timer catch
\* and log, the graph_refresh handler rejects
Rejected(b) ==
    [op |-> IF b = "refresh" THEN "graph_refresh" ELSE "buildGraph",
     caller |-> b, status |-> "rejected"]

\* m with each adjacency set cut down to the names in `known`
OnlyKnown(m, known) ==
    [keys |-> m.keys,
     val |-> [k \in DOMAIN m.val |->
                 SelectSeq(m.val[k], LAMBDA t : t \in known)]]

\* Publish with line 138 testing the published graph (`graph.nodes.has`)
\* instead of the Map under construction: only links between names that
\* were nodes of the replaced snapshot get an edge
PublishLinkingPublished(b, ps, nc) ==
    /\ \E date \in 1..MaxTime :
          /\ date >= graph.lastRefresh
          /\ LET g == BuildSnapshot(ps, nc, date)
                 known == Range(graph.nodes.keys)
             IN  graph' = [g EXCEPT
                              !.edges = OnlyKnown(@, known),
                              !.reverseEdges =
                                  [keys |-> @.keys,
                                   val |-> [k \in DOMAIN @.val |->
                                               IF @.keys[k] \in known
                                               THEN @.val[k] ELSE <<>>]]]
    /\ published' = graph'
    /\ src' = [built |-> TRUE, paths |-> ps, noteContents |-> nc,
               log |-> Completed(b, ps, nc, graph')]
    /\ resp' = Fulfilled(b, graph')
    /\ Return(b)

\* Publish filling the Maps of the published graph instead of new ones
\* (lines 95-97): what the replaced snapshot held stays
PublishMerged(b, ps, nc) ==
    /\ \E date \in 1..MaxTime :
          /\ date >= graph.lastRefresh
          /\ LET g0 == [nodes |-> graph.nodes, edges |-> graph.edges,
                        reverseEdges |-> graph.reverseEdges]
                 g == BuildEdges(BuildNodes(g0, ps, nc, 1), nc, 1)
             IN  graph' = [nodes |-> g.nodes, edges |-> g.edges,
                           reverseEdges |-> g.reverseEdges, lastRefresh |-> date]
    /\ published' = graph'
    /\ src' = [built |-> TRUE, paths |-> ps, noteContents |-> nc,
               log |-> Completed(b, ps, nc, graph')]
    /\ resp' = Fulfilled(b, graph')
    /\ Return(b)

\* lines 117-155: construct, publish, return
Publish(b, ps, nc) ==
    /\ \E date \in 1..MaxTime :
          /\ date >= graph.lastRefresh
          /\ graph' = BuildSnapshot(ps, nc, date)
    /\ published' = graph'
    /\ src' = [built |-> TRUE, paths |-> ps, noteContents |-> nc,
               log |-> Completed(b, ps, nc, graph')]
    /\ resp' = Fulfilled(b, graph')
    /\ Return(b)

\* lines 105-109 reached with the listing ps and the contents nc so far: the
\* batch at offset i is issued, or the loop is over and the graph is built
IssueBatch(b, ps, nc, i) ==
    IF i < Len(ps)
    THEN /\ pc' = [pc EXCEPT ![b] = "fetching"]
         /\ paths' = [paths EXCEPT ![b] = ps]
         /\ batchStart' = [batchStart EXCEPT ![b] = i]
         /\ noteContents' = [noteContents EXCEPT ![b] = nc]
         /\ queue' = [queue EXCEPT ![b] = <<>>]
         /\ notes' = [notes EXCEPT ![b] = <<>>]
         /\ resp' = NoResp
         /\ UNCHANGED <<graph, phase, src, published>>
    ELSE Publish(b, ps, nc)

\* StartBuild rebuilding in place: the live Maps are cleared instead of
\* fresh ones being allocated
StartBuildInPlace(b) ==
    /\ pc[b] = "idle"
    /\ pc' = [pc EXCEPT ![b] = "listing"]
    /\ queue' = [queue EXCEPT ![b] = <<<<>>>>]
    /\ notes' = [notes EXCEPT ![b] = <<>>]
    /\ resp' = NoResp
    /\ io' = NoIo
    /\ graph' = [graph EXCEPT !.nodes = EmptyMap, !.edges = EmptyMap,
                              !.reverseEdges = EmptyMap]
    /\ src' = Started(b)
    /\ UNCHANGED <<paths, batchStart, noteContents, published>>

\* lines 94-99 and listAllNotes 41-46: fresh Maps, the root listing issued
StartBuild(b) ==
    /\ pc[b] = "idle"
    /\ pc' = [pc EXCEPT ![b] = "listing"]
    /\ queue' = [queue EXCEPT ![b] = <<<<>>>>]
    /\ notes' = [notes EXCEPT ![b] = <<>>]
    /\ resp' = NoResp
    /\ io' = NoIo
    /\ src' = Started(b)
    /\ UNCHANGED <<graph, paths, batchStart, noteContents, published>>

\* index.ts:50-58: main's initial build, before the timer and the transport
MainBuild ==
    /\ phase = "init"
    /\ phase' = "building"
    /\ StartBuild("main")

\* index.ts:63-70: the periodic refresh
TimerBuild ==
    /\ phase = "serving"
    /\ StartBuild("timer")
    /\ UNCHANGED phase

\* refresh.ts:9-11: the graph_refresh tool
RefreshTool ==
    /\ phase = "serving"
    /\ StartBuild("refresh")
    /\ UNCHANGED phase

\* listAllNotes 45-56 after listDir answered with `entries`
AfterListDir(b, entries, answer) ==
    LET st == ScanEntries([queue |-> Tail(queue[b]), notes |-> notes[b]], entries, 1)
    IN  /\ io' = answer
        /\ IF st.queue # <<>>
           THEN /\ queue' = [queue EXCEPT ![b] = st.queue]
                /\ notes' = [notes EXCEPT ![b] = st.notes]
                /\ resp' = NoResp
                /\ UNCHANGED <<graph, phase, pc, paths, batchStart, noteContents, src,
                               published>>
           ELSE IssueBatch(b, st.notes, EmptyMap, 0)

\* listDir answers for the directory at the head of the queue
ListDirReturns(b) ==
    /\ pc[b] = "listing"
    /\ \E files \in ListDirAnswers(Head(queue[b])) :
          AfterListDir(b, VaultFiles(Head(queue[b]), files),
                       [kind |-> "listDir", caller |-> b, dir |-> Head(queue[b]), ok |-> TRUE])

\* ListDirFails with the error swallowed: the directory counts as empty and
\* the listing goes on
ListDirFailsSkipped(b) ==
    /\ pc[b] = "listing"
    /\ AfterListDir(b, <<>>, [kind |-> "listDir", caller |-> b, dir |-> Head(queue[b]),
                              ok |-> FALSE])

\* listDir throws (obsidian-api.ts:26-28, or fetch itself): listAllNotes and
\* buildGraph reject, nothing is published
ListDirFails(b) ==
    /\ pc[b] = "listing"
    /\ io' = [kind |-> "listDir", caller |-> b, dir |-> Head(queue[b]), ok |-> FALSE]
    /\ resp' = Rejected(b)
    /\ Return(b)
    /\ src' = Stopped(b)
    /\ UNCHANGED <<graph, published>>

\* lines 110-114: the fulfilled results of a batch go into noteContents
RECURSIVE CollectResults(_, _, _, _)
CollectResults(nc, batch, results, k) ==
    IF k > Len(batch) THEN nc
    ELSE CollectResults(IF results[k].ok THEN MapSet(nc, batch[k], results[k].content) ELSE nc,
                        batch, results, k + 1)

\* what readNote(path) may settle with
ReadNoteOutcomes(path) ==
    {[ok |-> TRUE, content |-> c] : c \in ReadNoteAnswers(path)}
        \cup {[ok |-> FALSE, content |-> <<>>]}

\* BatchSettles with Promise.all in place of Promise.allSettled: one failed
\* fetch rejects the rebuild
BatchSettlesAll(b) ==
    /\ pc[b] = "fetching"
    /\ LET batch == Slice(paths[b], batchStart[b], batchStart[b] + BATCH_SIZE)
       IN  \E results \in [DOMAIN batch -> UNION {ReadNoteOutcomes(batch[k]) : k \in DOMAIN batch}] :
              /\ \A k \in DOMAIN batch : results[k] \in ReadNoteOutcomes(batch[k])
              /\ io' = [kind |-> "readNote", caller |-> b,
                        failed |-> {batch[k] : k \in {j \in DOMAIN batch : ~results[j].ok}}]
              /\ IF \E k \in DOMAIN batch : ~results[k].ok
                 THEN /\ resp' = Rejected(b)
                      /\ Return(b)
                      /\ src' = Stopped(b)
                      /\ UNCHANGED <<graph, published>>
                 ELSE IssueBatch(b, paths[b],
                                 CollectResults(noteContents[b], batch, results, 1),
                                 batchStart[b] + BATCH_SIZE)

\* lines 106-115: Promise.allSettled resolves for the batch in flight
BatchSettles(b) ==
    /\ pc[b] = "fetching"
    /\ LET batch == Slice(paths[b], batchStart[b], batchStart[b] + BATCH_SIZE)
       IN  \E results \in [DOMAIN batch -> UNION {ReadNoteOutcomes(batch[k]) : k \in DOMAIN batch}] :
              /\ \A k \in DOMAIN batch : results[k] \in ReadNoteOutcomes(batch[k])
              /\ io' = [kind |-> "readNote", caller |-> b,
                        failed |-> {batch[k] : k \in {j \in DOMAIN batch : ~results[j].ok}}]
              /\ IssueBatch(b, paths[b], CollectResults(noteContents[b], batch, results, 1),
                            batchStart[b] + BATCH_SIZE)

----------------------------------------------------------------------------
(* The tool handlers (src/src/tools).  Each runs without an await, so it is *)
(* one step; view is what it read of the module-level graph.                *)

\* the names and numbers a caller may send
QueryNames == {NA, NB, NC, ND, NE, NX, <<"a">>}

MaxDepth == 3

MaxTopN == 6

View(g) == [nodes |-> g.nodes, edges |-> g.edges, reverseEdges |-> g.reverseEdges]

\* [...graph.nodes.keys()].find((k) => k.toLowerCase() === name.toLowerCase()),
\* <<>> for undefined
RECURSIVE FindIgnoreCase(_, _, _)
FindIgnoreCase(keys, name, k) ==
    IF k > Len(keys) THEN <<>>
    ELSE IF toLowerCase(keys[k]) = toLowerCase(name) THEN keys[k]
    ELSE FindIgnoreCase(keys, name, k + 1)

\* find-path.ts:19-25 resolve(name); <<>> for null (`match || null`)
resolve(g, name) ==
    IF MapHas(g.nodes, name) THEN name ELSE FindIgnoreCase(g.nodes.keys, name, 1)

\* query-related.ts:15-53
QueryRelatedResponse(g, note, depth) ==
    LET match == IF MapHas(g.nodes, note) THEN note ELSE FindIgnoreCase(g.nodes.keys, note, 1)
        related == queryRelated(g, match, depth)
    IN  IF ~MapHas(g.nodes, note) /\ match = <<>>
        THEN [op |-> "graph_query_related", kind |-> "not_found", note |-> note,
              available |-> Slice(g.nodes.keys, 0, 20), view |-> View(g)]
        ELSE IF Len(related) = 0
        THEN [op |-> "graph_query_related", kind |-> "none_related", note |-> match,
              depth |-> depth, related |-> related, view |-> View(g)]
        ELSE [op |-> "graph_query_related", kind |-> "related", note |-> match,
              depth |-> depth, related |-> related, view |-> View(g)]

\* the handler without the two `not found` returns of lines 30-35
FindPathResponseUnresolved(g, from, to) ==
    LET resolvedFrom == resolve(g, from)
        resolvedTo == resolve(g, to)
        path == findPath(g, resolvedFrom, resolvedTo)
    IN  IF path = <<>>
        THEN [op |-> "graph_find_path", kind |-> "no_path", from |-> from, to |-> to,
              resolvedFrom |-> resolvedFrom, resolvedTo |-> resolvedTo, view |-> View(g)]
        ELSE [op |-> "graph_find_path", kind |-> "path", from |-> from, to |-> to,
              resolvedFrom |-> resolvedFrom, resolvedTo |-> resolvedTo,
              path |-> path, hops |-> Len(path) - 1, view |-> View(g)]

\* find-path.ts:15-52
FindPathResponse(g, from, to) ==
    LET resolvedFrom == resolve(g, from)
        resolvedTo == resolve(g, to)
        path == findPath(g, resolvedFrom, resolvedTo)
    IN  IF resolvedFrom = <<>>
        THEN [op |-> "graph_find_path", kind |-> "not_found", note |-> from,
              from |-> from, to |-> to, view |-> View(g)]
        ELSE IF resolvedTo = <<>>
        THEN [op |-> "graph_find_path", kind |-> "not_found", note |-> to,
              from |-> from, to |-> to, view |-> View(g)]
        ELSE IF path = <<>>
        THEN [op |-> "graph_find_path", kind |-> "no_path", from |-> from, to |-> to,
              resolvedFrom |-> resolvedFrom, resolvedTo |-> resolvedTo, view |-> View(g)]
        ELSE [op |-> "graph_find_path", kind |-> "path", from |-> from, to |-> to,
              resolvedFrom |-> resolvedFrom, resolvedTo |-> resolvedTo,
              path |-> path, hops |-> Len(path) - 1, view |-> View(g)]

\* get-hubs (src/unnamed/part_000:14-29)
GetHubsResponse(g, topN) ==
    LET hubs == getHubs(g, topN)
    IN  [op |-> "graph_get_hubs", kind |-> IF Len(hubs) = 0 THEN "no_notes" ELSE "hubs",
         topN |-> topN, hubs |-> hubs, view |-> View(g)]

\* get-orphans (src/unnamed/part_001:9-22)
GetOrphansResponse(g) ==
    LET orphans == getOrphans(g)
    IN  [op |-> "graph_get_orphans", kind |-> IF Len(orphans) = 0 THEN "no_orphans" ELSE "orphans",
         orphans |-> orphans, view |-> View(g)]

\* get-clusters.ts:14-31
GetClustersResponse(g, by) ==
    LET clusters == getClusters(g, by)
    IN  [op |-> "graph_get_clusters", kind |-> IF Len(clusters) = 0 THEN "no_notes" ELSE "clusters",
         by |-> by, clusters |-> clusters, view |-> View(g)]

\* get-stats.ts:9-25
GetStatsResponse(g) ==
    [op |-> "graph_get_stats", kind |-> "stats", stats |-> getStats(g), view |-> View(g)]

\* a handler answers; nothing of the program's state changes
Answer(r) ==
    /\ phase = "serving"
    /\ resp' = r
    /\ io' = NoIo
    /\ UNCHANGED <<graph, phase, locals, src, published>>

\* queryRelated called as exported, with no name resolution before it
QueryRelatedCall(startName, depth) ==
    Answer([op |-> "queryRelated", startName |-> startName, depth |-> depth,
            related |-> queryRelated(graph, startName, depth), view |-> View(graph)])

QueryRelatedTool(note, depth) == Answer(QueryRelatedResponse(graph, note, depth))

FindPathTool(from, to) == Answer(FindPathResponse(graph, from, to))

GetHubsTool(topN) == Answer(GetHubsResponse(graph, topN))

GetOrphansTool == Answer(GetOrphansResponse(graph))

GetClustersTool(by) == Answer(GetClustersResponse(graph, by))

GetStatsTool == Answer(GetStatsResponse(graph))

\* the same handlers on the names of the three-note vaults
SmallNames == {NA, NC, NX, <<"b">>}

QuerySmall ==
    \/ QueryRelatedCall(NX, 1)
    \/ \E note \in SmallNames : QueryRelatedTool(note, 1)
    \/ \E from \in {NB, NX, <<"a">>}, to \in {NC, NX} : FindPathTool(from, to)
    \/ GetHubsTool(2)
    \/ GetOrphansTool
    \/ GetClustersTool("tag")
    \/ GetStatsTool

Build == \E b \in Builders : ListDirReturns(b) \/ ListDirFails(b) \/ BatchSettles(b)

Next == MainBuild \/ TimerBuild \/ RefreshTool \/ Build \/ QuerySmall

\* the server: rebuilds and queries interleaved, on the small vaults
Spec == Init /\ [][Next]_vars

\* a published snapshot of the second universe, with the handlers' full range
\* of inputs: the state after a rebuild that listed QueryPaths and fetched
\* every note
InitQuery ==
    \E c1 \in QueryContents[1], c2 \in QueryContents[2],
       c3 \in QueryContents[3], c4 \in QueryContents[4], c5 \in QueryContents[5] :
        LET nc == [keys |-> QueryPaths, val |-> <<c1, c2, c3, c4, c5>>]
        IN  /\ graph = BuildSnapshot(QueryPaths, nc, 1)
            /\ published = graph
            /\ src = [built |-> TRUE, paths |-> QueryPaths, noteContents |-> nc,
                      log |-> NoLog]
            /\ phase = "serving"
            /\ pc = [b \in Builders |-> "idle"]
            /\ queue = [b \in Builders |-> <<>>]
            /\ notes = [b \in Builders |-> <<>>]
            /\ paths = [b \in Builders |-> <<>>]
            /\ batchStart = [b \in Builders |-> 0]
            /\ noteContents = [b \in Builders |-> EmptyMap]
            /\ resp = NoResp
            /\ io = NoIo

\* one request per run: a second request would find the same graph
NextQuery ==
    \/ \E startName \in QueryNames, depth \in 1..MaxDepth :
          resp = NoResp /\ QueryRelatedCall(startName, depth)
    \/ \E note \in QueryNames, depth \in 1..MaxDepth :
          resp = NoResp /\ QueryRelatedTool(note, depth)
    \/ \E from \in QueryNames, to \in QueryNames : resp = NoResp /\ FindPathTool(from, to)
    \/ \E topN \in 1..MaxTopN : resp = NoResp /\ GetHubsTool(topN)
    \/ resp = NoResp /\ GetOrphansTool
    \/ \E by \in {"folder", "tag"} : resp = NoResp /\ GetClustersTool(by)
    \/ resp = NoResp /\ GetStatsTool

SpecQuery == InitQuery /\ [][NextQuery]_vars

\* a vault too large for one batch: LargeSize notes in the root, named n,
\* nn, nnn, ...
LargeSize == 21

RECURSIVE Repeated(_, _)
Repeated(c, k) == IF k = 0 THEN <<>> ELSE <<c>> \o Repeated(c, k - 1)

LargeListing == [k \in 1..LargeSize |-> Md(Repeated("n", k))]

\* listDir answers for the root with the listing of the large vault
ListDirReturnsLarge(b) ==
    /\ pc[b] = "listing"
    /\ Head(queue[b]) = <<>>
    /\ AfterListDir(b, VaultFiles(<<>>, LargeListing),
                    [kind |-> "listDir", caller |-> b, dir |-> <<>>, ok |-> TRUE])

\* the largest batch whose settling is followed; the fetches of a larger
\* batch stay outstanding
MaxSettled == 3

\* Promise.allSettled resolves for a batch of at most MaxSettled fetches
BatchSettlesBounded(b) ==
    /\ Len(Slice(paths[b], batchStart[b], batchStart[b] + BATCH_SIZE)) <= MaxSettled
    /\ BatchSettles(b)

NextFetch ==
    \/ MainBuild
    \/ TimerBuild
    \/ RefreshTool
    \/ \E b \in Builders :
          \/ ListDirReturns(b)
          \/ ListDirReturnsLarge(b)
          \/ ListDirFails(b)
          \/ BatchSettlesBounded(b)

\* the rebuilds alone, on the small vaults and the large one
SpecFetch == Init /\ [][NextFetch]_vars

\* the state after construction with the log kept in the given mode
InitLogging(mode) ==
    /\ graph = InitialGraph
    /\ phase = "init"
    /\ pc = [b \in Builders |-> "idle"]
    /\ queue = [b \in Builders |-> <<>>]
    /\ notes = [b \in Builders |-> <<>>]
    /\ paths = [b \in Builders |-> <<>>]
    /\ batchStart = [b \in Builders |-> 0]
    /\ noteContents = [b \in Builders |-> EmptyMap]
    /\ resp = NoResp
    /\ io = NoIo
    /\ src = [built |-> FALSE, paths |-> <<>>, noteContents |-> EmptyMap,
              log |-> [NoLog EXCEPT !.mode = mode]]
    /\ published = InitialGraph

InitRepeat == InitLogging("repeat")

InitRace == InitLogging("race")

NextRebuild == MainBuild \/ TimerBuild \/ RefreshTool \/ Build

\* the rebuilds alone, on the small vaults, with the log of repeats kept
SpecRepeat == InitRepeat /\ [][NextRebuild]_vars

\* the rebuilds alone, on the small vaults, with the log of races kept
SpecRace == InitRace /\ [][NextRebuild]_vars
----------------------------------------------------------------------------
(* Properties *)

Keys(m) == Range(m.keys)

QueryOps ==
    {"queryRelated", "graph_query_related", "graph_find_path", "graph_get_hubs",
     "graph_get_orphans", "graph_get_clusters", "graph_get_stats"}

BuildOps == {"buildGraph", "graph_refresh"}

\* the listed path whose node is stored under name n: none of these is <<>>
ListedAs(n) == {k \in DOMAIN src.paths : nameFromPath(src.paths[k]) = n}

\* the content buildGraph used for a listed path: "" when the fetch failed
ContentUsed(p) == MapGet(src.noteContents, p, <<>>)

\* the names a listed path's content refers to that are nodes
KnownRefs(p) == Range(parseWikilinks(ContentUsed(p))) \cap Keys(graph.nodes)

\* C1: whatever rebuilds are in flight, the graph a query can read is the
\* snapshot published by the last completed rebuild (the initial empty graph
\* before any), and the nodes, edges and reverseEdges a query did read are
\* those of that one snapshot.
C1_QueriesReadOnePublishedSnapshot ==
    /\ graph = published
    /\ resp.op \in QueryOps => resp.view = View(published)

\* a query answered from a non-empty snapshot while a rebuild that listed
\* other paths is fetching
C1_Witness ==
    /\ resp.op \in QueryOps
    /\ resp.view.nodes.keys # <<>>
    /\ \E b \in Builders : pc[b] = "fetching" /\ paths[b] # src.paths

\* C2: when a listDir call of the listing fails (the root or a
\* sub-directory), that step ends the rebuild: its caller gets the rejection,
\* the activation is over and graph is what it was; and as long as no rebuild
\* has completed, graph is the initial empty graph and queries answer from it.
C2_ListingFailureAborts ==
    /\ [][(io'.kind = "listDir" /\ ~io'.ok) =>
             /\ resp'.op \in BuildOps
             /\ resp'.status = "rejected"
             /\ resp'.caller = io'.caller
             /\ pc'[io'.caller] = "idle"
             /\ graph' = graph]_vars
    /\ [](~src.built =>
             /\ graph = InitialGraph
             /\ resp.op \in QueryOps => resp.view = View(InitialGraph))

\* the listing of a sub-directory failed while a non-empty snapshot is
\* published
C2_Witness ==
    /\ io.kind = "listDir"
    /\ ~io.ok
    /\ io.dir # <<>>
    /\ src.built
    /\ graph.nodes.keys # <<>>

C4_SnapshotClosed ==
    LET N == Keys(graph.nodes)
    IN  /\ Keys(graph.edges) = N
        /\ Keys(graph.reverseEdges) = N
        /\ \A k \in DOMAIN graph.edges.val : Range(graph.edges.val[k]) \subseteq N
        /\ \A k \in DOMAIN graph.reverseEdges.val : Range(graph.reverseEdges.val[k]) \subseteq N

\* a snapshot built from a document that refers to a name that is no node
C4_Witness ==
    /\ src.built
    /\ \E k \in DOMAIN src.noteContents.val :
          \E t \in Range(parseWikilinks(src.noteContents.val[k])) :
              ~MapHas(graph.nodes, t)

\* C5 as stated: after buildGraph, for every listed document D whose content
\* refers to exactly the set R of known names (unknown names removed,
\* duplicates collapsed), edges[name(D)] equals R and name(D) is a member of
\* reverseEdges[t] for every t in R.
C5_EdgesEqualOwnReferences ==
    src.built =>
        \A k \in DOMAIN src.paths :
            LET p == src.paths[k]
                n == nameFromPath(p)
            IN  /\ Range(MapGet(graph.edges, n, <<>>)) = KnownRefs(p)
                /\ \A t \in KnownRefs(p) :
                       n \in Range(MapGet(graph.reverseEdges, t, <<>>))

\* C5 amended: after buildGraph, for every listed document D, edges[name(D)]
\* holds, each once, exactly the known names referred to by the listed
\* documents whose short name is name(D) (so exactly R when D is the only
\* listed document of that name), and name(D) is a member of
\* reverseEdges[t] for every t in R.
C5_EdgesAreReferencesOfTheName ==
    src.built =>
        \A k \in DOMAIN src.paths :
            LET p == src.paths[k]
                n == nameFromPath(p)
                out == MapGet(graph.edges, n, <<>>)
            IN  /\ Range(out) = UNION {KnownRefs(src.paths[j]) : j \in ListedAs(n)}
                /\ Cardinality(Range(out)) = Len(out)
                /\ ListedAs(n) = {k} => Range(out) = KnownRefs(p)
                /\ \A t \in KnownRefs(p) :
                       n \in Range(MapGet(graph.reverseEdges, t, <<>>))

\* a published snapshot built from a document that names a known name
\* twice, and one that names an unknown name next to a known one
C5_Witness ==
    /\ src.built
    /\ \E k \in DOMAIN src.paths :
           LET links == parseWikilinks(ContentUsed(src.paths[k]))
           IN  /\ Len(links) > Cardinality(Range(links))
               /\ KnownRefs(src.paths[k]) # {}
    /\ \E k \in DOMAIN src.paths :
           LET links == parseWikilinks(ContentUsed(src.paths[k]))
           IN  /\ Range(links) \ Keys(graph.nodes) # {}
               /\ KnownRefs(src.paths[k]) # {}

\* C6 as stated: when two listed paths have the same short name, the node
\* stored under that name after buildGraph is the one of the path listed
\* first: path, folder, tags and hasContent are those of the first path.
C6_FirstWriterWins ==
    src.built =>
        \A n \in Keys(graph.nodes) :
            LET first == CHOOSE k \in ListedAs(n) : \A j \in ListedAs(n) : k <= j
                p == src.paths[first]
                node == MapGet(graph.nodes, n, <<>>)
            IN  /\ node.path = p
                /\ node.folder = folderFromPath(p)
                /\ node.tags = parseTags(ContentUsed(p))
                /\ node.hasContent = (trim(ContentUsed(p)) # <<>>)

\* C6 amended: when two listed paths have the same short name, the node
\* stored under that name after buildGraph is the one of the path listed
\* last (last writer wins): path, folder, tags and hasContent are those of
\* the last path, and the name still has one node.
C6_LastWriterWins ==
    src.built =>
        \A n \in Keys(graph.nodes) :
            LET last == CHOOSE k \in ListedAs(n) : \A j \in ListedAs(n) : k >= j
                p == src.paths[last]
                node == MapGet(graph.nodes, n, <<>>)
            IN  /\ ListedAs(n) # {}
                /\ node.name = n
                /\ node.path = p
                /\ node.folder = folderFromPath(p)
                /\ node.tags = parseTags(ContentUsed(p))
                /\ node.hasContent = (trim(ContentUsed(p)) # <<>>)
                /\ Cardinality({i \in DOMAIN graph.nodes.keys :
                                   graph.nodes.keys[i] = n}) = 1

\* a published snapshot of a listing with two paths of one short name that
\* differ in folder, tags and hasContent
C6_Witness ==
    /\ src.built
    /\ \E j, k \in DOMAIN src.paths :
           LET p == src.paths[j]
               q == src.paths[k]
           IN  /\ j < k
               /\ nameFromPath(p) = nameFromPath(q)
               /\ folderFromPath(p) # folderFromPath(q)
               /\ parseTags(ContentUsed(p)) # parseTags(ContentUsed(q))
               /\ (trim(ContentUsed(p)) # <<>>) # (trim(ContentUsed(q)) # <<>>)
               /\ MapGet(graph.nodes, nameFromPath(q), <<>>).path = q

\* the undirected view: the names adjacent to a, by an edge either way
Adj(a) ==
    Range(MapGet(graph.edges, a, <<>>)) \cup Range(MapGet(graph.reverseEdges, a, <<>>))

\* the names within k hops of a in the undirected view
RECURSIVE Ball(_, _)
Ball(a, k) ==
    IF k = 0 THEN {a}
    ELSE LET inner == Ball(a, k - 1)
         IN  inner \cup UNION {Adj(n) : n \in inner}

\* every name connected to a
Reach(a) == Ball(a, Cardinality(Keys(graph.nodes)))

\* the shortest distance from a to a name connected to it
Dist(a, b) == CHOOSE k \in 0..Cardinality(Keys(graph.nodes)) :
                  /\ b \in Ball(a, k)
                  /\ k > 0 => b \notin Ball(a, k - 1)

\* C7: for every snapshot, every start name (a node or not, self-linking or
\* not) and every depth >= 1, the result of queryRelated(start, depth) has no
\* entry for start, no name twice, and only distances d with 1 <= d <= depth.
C7_RelatedExcludesStartOnceWithinDepth ==
    resp.op \in {"queryRelated", "graph_query_related"} =>
        LET start == IF resp.op = "queryRelated" THEN resp.startName ELSE resp.note
            r == IF resp.op = "queryRelated" \/ resp.kind # "not_found"
                 THEN resp.related ELSE <<>>
        IN  /\ \A i \in DOMAIN r :
                   /\ r[i].name # start
                   /\ 1 <= r[i].distance
                   /\ r[i].distance <= resp.depth
            /\ \A i, j \in DOMAIN r : r[i].name = r[j].name => i = j

\* queryRelated answered for a start node that links to itself, with a name
\* at the full depth of 2 or more
C7_Witness ==
    /\ resp.op = "queryRelated"
    /\ resp.startName \in Range(MapGet(graph.edges, resp.startName, <<>>))
    /\ resp.depth >= 2
    /\ \E i \in DOMAIN resp.related : resp.related[i].distance = resp.depth

\* C8: for every snapshot and every two distinct nodes a and b, findPath(a, b)
\* returns a sequence from a to b whose consecutive names are adjacent in the
\* undirected view and whose number of hops (names minus one, as the tool
\* reports it) is the shortest distance between a and b; it returns the
\* no-path result exactly when nothing connects a and b.
C8_FindPathIsShortest ==
    ( /\ resp.op = "graph_find_path"
      /\ resp.from # resp.to
      /\ resp.from \in Keys(graph.nodes)
      /\ resp.to \in Keys(graph.nodes) ) =>
        IF resp.to \in Reach(resp.from)
        THEN /\ resp.kind = "path"
             /\ resp.path[1] = resp.from
             /\ resp.path[Len(resp.path)] = resp.to
             /\ resp.hops = Len(resp.path) - 1
             /\ resp.hops = Dist(resp.from, resp.to)
             /\ \A i \in 1..(Len(resp.path) - 1) : resp.path[i + 1] \in Adj(resp.path[i])
        ELSE resp.kind = "no_path"

\* a path of two hops found from a node with several neighbours, the first
\* of which in traversal order is not on the path
C8_Witness ==
    /\ resp.op = "graph_find_path"
    /\ resp.from \in Keys(graph.nodes)
    /\ resp.kind = "path"
    /\ resp.hops = 2
    /\ Cardinality(Adj(resp.from) \ {resp.from}) >= 2
    /\ Neighbors(graph, resp.from)[1] # resp.path[2]

\* a name the handler can resolve: a node's name, exactly or ignoring case
Resolves(n) == \E k \in Keys(graph.nodes) : toLowerCase(k) = toLowerCase(n)

\* the node a resolvable name stands for
NodeFor(n) ==
    IF n \in Keys(graph.nodes) THEN n
    ELSE CHOOSE k \in Keys(graph.nodes) : toLowerCase(k) = toLowerCase(n)

Total(n) ==
    Cardinality(Range(MapGet(graph.edges, n, <<>>)))
        + Cardinality(Range(MapGet(graph.reverseEdges, n, <<>>)))

\* C10: for every snapshot and every n >= 1, getHubs(n) returns
\* min(n, number of nodes) entries of distinct nodes, total non-increasing,
\* each with outgoing = |edges[name]|, incoming = |reverseEdges[name]| and
\* total = outgoing + incoming, and no node left out has a total greater than
\* the smallest total returned.
C10_HubsAreTheTopByTotal ==
    resp.op = "graph_get_hubs" =>
        LET h == resp.hubs
            N == Cardinality(Keys(graph.nodes))
            returned == {h[i].name : i \in DOMAIN h}
        IN  /\ Len(h) = IF resp.topN <= N THEN resp.topN ELSE N
            /\ \A i \in 1..(Len(h) - 1) : h[i].total >= h[i + 1].total
            /\ \A i \in DOMAIN h :
                   /\ h[i].name \in Keys(graph.nodes)
                   /\ h[i].outgoing = Cardinality(Range(MapGet(graph.edges, h[i].name, <<>>)))
                   /\ h[i].incoming =
                          Cardinality(Range(MapGet(graph.reverseEdges, h[i].name, <<>>)))
                   /\ h[i].total = h[i].outgoing + h[i].incoming
            /\ Cardinality(returned) = Len(h)
            /\ \A n \in Keys(graph.nodes) \ returned :
                   \A i \in DOMAIN h : Total(n) <= h[i].total

\* two hubs asked of five nodes whose first node in Map order is not among
\* the two, with a linked node left out
C10_Witness ==
    /\ resp.op = "graph_get_hubs"
    /\ resp.topN = 2
    /\ Len(resp.hubs) = 2
    /\ resp.hubs[1].total > resp.hubs[2].total
    /\ \A i \in DOMAIN resp.hubs : resp.hubs[i].name # graph.nodes.keys[1]
    /\ Total(graph.nodes.keys[1]) > 0

\* C11: for every snapshot, getOrphans() returns, each once, exactly the nodes
\* whose outgoing set and incoming set are both empty; a node with only
\* incoming edges, only outgoing edges or a link to itself is not returned.
C11_OrphansAreTheUnlinkedNodes ==
    resp.op = "graph_get_orphans" =>
        LET o == resp.orphans
            unlinked == {n \in Keys(graph.nodes) :
                            /\ Range(MapGet(graph.edges, n, <<>>)) = {}
                            /\ Range(MapGet(graph.reverseEdges, n, <<>>)) = {}}
        IN  /\ {o[i].name : i \in DOMAIN o} = unlinked
            /\ \A i, j \in DOMAIN o : o[i].name = o[j].name => i = j
            /\ \A i \in DOMAIN o : o[i].path = MapGet(graph.nodes, o[i].name, <<>>).path
            /\ \A n \in Keys(graph.nodes) :
                   n \in Adj(n) => \A i \in DOMAIN o : o[i].name # n

\* orphans answered on a snapshot with an unlinked node, a node that only
\* links to itself, a node with only outgoing and one with only incoming edges
C11_Witness ==
    /\ resp.op = "graph_get_orphans"
    /\ resp.orphans # <<>>
    /\ \E n \in Keys(graph.nodes) : Adj(n) = {n}
    /\ \E n \in Keys(graph.nodes) :
           /\ MapGet(graph.edges, n, <<>>) # <<>>
           /\ MapGet(graph.reverseEdges, n, <<>>) = <<>>
    /\ \E n \in Keys(graph.nodes) :
           /\ MapGet(graph.edges, n, <<>>) = <<>>
           /\ MapGet(graph.reverseEdges, n, <<>>) # <<>>

\* the sum of the member counts of the buckets cs[k..]
RECURSIVE SumSizes(_, _)
SumSizes(cs, k) == IF k > Len(cs) THEN 0 ELSE Len(cs[k].notes) + SumSizes(cs, k + 1)

\* the labels of the buckets of cs that hold an entry for the node n
BucketsOf(cs, n) ==
    {cs[k].cluster : k \in {j \in DOMAIN cs : \E i \in DOMAIN cs[j].notes :
                                                  cs[j].notes[i].name = n}}

\* C12: for every snapshot, getClusters("tag") files a node with a non-empty
\* tag set T in exactly the buckets named by the members of T, once each, and
\* a node without tags in exactly the one "(untagged)" bucket; the member
\* counts sum to at least the number of nodes and the buckets come in
\* non-increasing order of member count.
C12_TagClustersFanOut ==
    (resp.op = "graph_get_clusters" /\ resp.by = "tag") =>
        LET cs == resp.clusters
        IN  /\ \A j, k \in DOMAIN cs : cs[j].cluster = cs[k].cluster => j = k
            /\ \A k \in DOMAIN graph.nodes.keys :
                   LET n == graph.nodes.keys[k]
                       T == Range(graph.nodes.val[k].tags)
                   IN  BucketsOf(cs, n) = IF T # {} THEN T ELSE {UntaggedLabel}
            /\ \A k \in DOMAIN cs :
                   /\ cs[k].notes # <<>>
                   /\ \A i, j \in DOMAIN cs[k].notes :
                          cs[k].notes[i].name = cs[k].notes[j].name => i = j
                   /\ \A i \in DOMAIN cs[k].notes :
                          LET e == cs[k].notes[i]
                          IN  /\ e.name \in Keys(graph.nodes)
                              /\ e.path = MapGet(graph.nodes, e.name, <<>>).path
            /\ SumSizes(cs, 1) >= Cardinality(Keys(graph.nodes))
            /\ \A k \in 1..(Len(cs) - 1) : Len(cs[k].notes) >= Len(cs[k + 1].notes)

\* tag clusters answered on a snapshot with a node of two tags and a node
\* of none, in buckets of different sizes
C12_Witness ==
    /\ resp.op = "graph_get_clusters"
    /\ resp.by = "tag"
    /\ \E k \in DOMAIN graph.nodes.val : Len(graph.nodes.val[k].tags) = 2
    /\ \E k \in DOMAIN graph.nodes.val : Len(graph.nodes.val[k].tags) = 0
    /\ SumSizes(resp.clusters, 1) > Cardinality(Keys(graph.nodes))
    /\ Len(resp.clusters[1].notes) > Len(resp.clusters[Len(resp.clusters)].notes)

\* the step is the publication of a rebuild: an activation that was in
\* flight returns fulfilled
Publishes ==
    /\ resp'.op \in BuildOps
    /\ resp'.status = "fulfilled"
    /\ pc[resp'.caller] # "idle"

\* the published snapshot is replaced by one built from the same listing
\* and the same fetch outcome of every listed document
SameSource ==
    /\ Publishes
    /\ src.built
    /\ src'.paths = src.paths
    /\ src'.noteContents = src.noteContents

\* what the queries other than the statistics return on the snapshot g
Answers(g) ==
    [related |-> [n \in QueryNames, d \in 1..MaxDepth |-> queryRelated(g, n, d)],
     relatedTool |-> [n \in QueryNames, d \in 1..MaxDepth |-> QueryRelatedResponse(g, n, d)],
     path |-> [a \in QueryNames, b \in QueryNames |-> FindPathResponse(g, a, b)],
     hubs |-> [n \in 1..MaxTopN |-> GetHubsResponse(g, n)],
     orphans |-> GetOrphansResponse(g),
     clusters |-> [by \in {"folder", "tag"} |-> GetClustersResponse(g, by)]]

\* C13 as stated: when a snapshot is replaced by one built from the same
\* listing and the same fetch outcomes, the two have identical nodes, edges
\* and reverseEdges, and every query, the statistics included, returns the
\* same on both.
C13_RebuildIdempotentForEveryQuery ==
    [][SameSource =>
          /\ View(graph') = View(graph)
          /\ Answers(graph') = Answers(graph)
          /\ GetStatsResponse(graph') = GetStatsResponse(graph)]_vars

\* C13 amended: when a snapshot is replaced by one built from the same
\* listing and the same fetch outcomes, the two have identical nodes, edges
\* and reverseEdges (lastRefresh does not go back), and every query returns
\* the same on both, but for the lastRefresh the statistics report.
C13_RebuildIdempotentButForRefreshTime ==
    [][SameSource =>
          /\ View(graph') = View(graph)
          /\ graph'.lastRefresh >= graph.lastRefresh
          /\ Answers(graph') = Answers(graph)
          /\ [getStats(graph') EXCEPT !.lastRefresh = 0]
                = [getStats(graph) EXCEPT !.lastRefresh = 0]]_vars

\* a snapshot with edges and a document whose fetch failed, published later
\* than the one it replaced, which was built from the same listing and
\* contents
C13_Witness ==
    /\ src.log.repeatOf > 0
    /\ graph.lastRefresh > src.log.repeatOf
    /\ \E k \in DOMAIN graph.edges.val : graph.edges.val[k] # <<>>
    /\ \E k \in DOMAIN src.paths : ~MapHas(src.noteContents, src.paths[k])

\* the contents the activation b has fetched once its last batch has
\* settled as `io` says: those of its earlier batches, and of the last batch
\* every path but the failed ones
OwnContents(b, nc) ==
    \A k \in DOMAIN paths[b] :
        LET p == paths[b][k]
        IN  IF k > batchStart[b]
            THEN MapHas(nc, p) <=> p \notin io'.failed
            ELSE /\ MapHas(nc, p) <=> MapHas(noteContents[b], p)
                 /\ MapGet(nc, p, <<>>) = MapGet(noteContents[b], p, <<>>)

\* g holds the activation b's listing and the contents nc and nothing else:
\* a node for every listed path and no other, each with a listed path of
\* its name, and an edge n -> t exactly when a fetched document named n
\* refers to the node t, the reverse edges mirroring the edges
OwnSnapshot(b, g, nc) ==
    LET listed == Range(paths[b])
        names == Keys(g.nodes)
        refs == [p \in listed |-> Range(WikilinksOf[MapGet(nc, p, <<>>)]) \cap names]
        out == [n \in names |-> Range(MapGet(g.edges, n, <<>>))]
    IN  /\ names = {NameOf[p] : p \in listed}
        /\ Keys(g.edges) = names
        /\ Keys(g.reverseEdges) = names
        /\ \A n \in names :
               /\ MapGet(g.nodes, n, <<>>).path \in {p \in listed : NameOf[p] = n}
               /\ out[n] = UNION {refs[p] : p \in {q \in listed : NameOf[q] = n}}
               /\ Range(MapGet(g.reverseEdges, n, <<>>)) = {m \in names : n \in out[m]}

\* C14: when rebuilds overlap, each publishes its own complete snapshot when
\* it finishes (built from its own listing and its own fetched contents,
\* whatever the others listed or fetched), the others go on undisturbed, and
\* the graph changes at no other step: so after both have finished the
\* current snapshot is that of the rebuild that completed last, whichever
\* started or listed first.
C14_LastCompletedRebuildWins ==
    [][/\ Publishes =>
              LET b == resp'.caller
              IN  /\ graph' = published'
                  /\ src'.paths = paths[b]
                  /\ Keys(src'.noteContents) \subseteq Range(paths[b])
                  /\ pc[b] = "fetching" => OwnContents(b, src'.noteContents)
                  /\ OwnSnapshot(b, graph', src'.noteContents)
                  /\ \A c \in Builders \ {b} :
                         /\ pc'[c] = pc[c]
                         /\ paths'[c] = paths[c]
                         /\ noteContents'[c] = noteContents[c]
                         /\ batchStart'[c] = batchStart[c]
       /\ graph' # graph => Publishes]_vars

\* both of two overlapping rebuilds have finished: the current snapshot is
\* that of the one that started first and completed last, and it differs
\* from the snapshot of the other, which it replaced
C14_Witness ==
    /\ src.log.won
    /\ \A b \in Builders : pc[b] = "idle"
    /\ graph.nodes.keys # <<>>
    /\ graph = published
    /\ View(graph) = View(BuildSnapshot(src.paths, src.noteContents, 0))

\* the fetches the activation b has outstanding: readNote was called for
\* every path of the batch in flight (line 108) and the batch has not settled
Outstanding(b) ==
    IF pc[b] = "fetching"
    THEN Len(Slice(paths[b], batchStart[b], batchStart[b] + BATCH_SIZE))
    ELSE 0

RECURSIVE SumOutstanding(_)
SumOutstanding(bs) ==
    IF bs = {} THEN 0
    ELSE LET b == CHOOSE x \in bs : TRUE
         IN  Outstanding(b) + SumOutstanding(bs \ {b})

\* C15: at every moment at most 20 document fetches are outstanding against
\* the content source, and within a rebuild a batch is in flight only when
\* every fetch of the batches before it has settled: the paths fetched so
\* far are those before the batch, and the batch is of the next 20 at most.
C15_FetchesBounded ==
    /\ SumOutstanding(Builders) <= 20
    /\ \A b \in Builders :
           pc[b] = "fetching" =>
               /\ Outstanding(b) <= 20
               /\ Keys(noteContents[b]) \subseteq {paths[b][k] : k \in 1..batchStart[b]}
============================================================================
